---- MODULE Spec2Model ----
(***************************************************************************)
(* A model of the rust_wcloud layout engine: the summed-area table of      *)
(* src/src/sat.rs, the frequency analyzer of src/src/tokenizer.rs and the  *)
(* placement loop of src/src/lib.rs.                                       *)
(*                                                                         *)
(* Buffers are row-major, as in the code: cell (x, y) of a buffer of width *)
(* w is the element at index y * w + x.  Buffers are functions over        *)
(* 0 .. n-1 so that the indices are the code's indices.                    *)
(***************************************************************************)
EXTENDS Integers, Sequences, FiniteSets, TLC

\* ------------------------------------------------------------------ bounds
\* Largest grid of the occupancy-model specification SpecSat.
SatMaxW == 3
SatMaxH == 3
\* At most this many occupied cells in a grid of SpecSat.
SatMaxOcc == 2

\* Canvas of the layout specification Spec.
CanvasW == 4
CanvasH == 5
\* Ranked word lists of Spec: at most MaxWords words of 1 .. MaxChars
\* characters, weights k / MaxCount.
MaxWords == 2
MaxChars == 2
MaxCount == 2
\* At most this many unplaceable (non-zero) pixels in a mask of Spec.
MaxMaskOcc == 1
\* Seeds 0 .. MaxSeed, the generator's state is taken modulo RngMod.
MaxSeed == 1
RngMod == 64

\* Texts of the analyzer specification SpecTok: at most MaxTextLen segments.
MaxTextLen == 4
GenTextLen == 3

\* Mask images of the skip-list specification SpecSkip.
SkipMaxW == 3
SkipMaxH == 2

\* The turns of place_word's loop the model follows for one word.
MaxTurns == 12

\* Tables of the search specification SpecFind.
FindMaxW == 4
FindMaxH == 3

\* ------------------------------------------------------------ sat.rs
Min(a, b) == IF a < b THEN a ELSE b
Max(a, b) == IF a > b THEN a ELSE b

RECURSIVE SumUpTo(_, _, _)
\* Sum of f[lo .. lo+n-1].
SumUpTo(f, lo, n) == IF n <= 0 THEN 0 ELSE f[lo + n - 1] + SumUpTo(f, lo, n - 1)

\* One row of to_summed_area_table: el += sum + prev_row_el; sum += original.
\* tab is the buffer before the row is touched, prev the previous row as the
\* loop left it (all zero for the first row visited).
SatRow(tab, width, row, prev) ==
    [c \in 0 .. width - 1 |->
        tab[row * width + c] + SumUpTo(tab, row * width, c) + prev[c]]

RECURSIVE SatFrom(_, _, _, _, _)
SatFrom(tab, width, rows, row, prev) ==
    IF row >= rows THEN tab
    ELSE LET new == SatRow(tab, width, row, prev)
             tab2 == [i \in DOMAIN tab |->
                        IF i \div width = row /\ i < rows * width
                        THEN new[i % width] ELSE tab[i]]
         IN  SatFrom(tab2, width, rows, row + 1, new)

\* A mutant of to_summed_area_table: the row sum leaves out the previous row.
SatNoPrevRow(tab, width, start_row) ==
    IF width = 0 THEN tab
    ELSE [i \in DOMAIN tab |->
            IF i \div width >= start_row
            THEN tab[i] + SumUpTo(tab, (i \div width) * width, i % width)
            ELSE tab[i]]

\* to_summed_area_table(table, width, start_row): chunks_exact_mut(width)
\* visits the complete rows, skip(start_row) leaves the first ones alone,
\* prev_row starts as zeros.
to_summed_area_table(tab, width, start_row) ==
    IF width = 0 THEN tab
    ELSE SatFrom(tab, width, Cardinality(DOMAIN tab) \div width, start_row,
                 [c \in 0 .. width - 1 |-> 0])

\* region_is_empty: four lookups, tl + br - tr - bl == 0.
region_is_empty(tab, table_width, x, y, width, height) ==
    LET tl == tab[y * table_width + x]
        tr == tab[y * table_width + x + width]
        bl == tab[(y + height) * table_width + x]
        br == tab[(y + height) * table_width + x + width]
    IN  tl + br - tr - bl = 0

\* The cells of the width-by-height rectangle whose top-left cell is (x, y).
RectCells(x, y, width, height) ==
    {c \in (x .. x + width - 1) \X (y .. y + height - 1) : TRUE}

\* Brute-force scan: every cell of the rectangle holds 0.
ScanIsEmpty(buf, buf_width, x, y, width, height) ==
    \A c \in RectCells(x, y, width, height) : buf[c[2] * buf_width + c[1]] = 0

VARIABLES
    s_pc,      \* SpecSat: "init", "built", "queried"
    s_width, s_height,
    s_grid,    \* SpecSat: the occupancy grid
    s_table,   \* SpecSat: its summed-area table
    s_query,   \* SpecSat: the last query <<x, y, w, h>>
    s_result   \* SpecSat: what region_is_empty answered

VARIABLES
    k_pc,      \* SpecSkip: "init", "built"
    k_width, k_height,
    k_img,     \* SpecSkip: the mask image
    k_list     \* SpecSkip: what create_mask_skip_list returned

VARIABLES
    f_pc,      \* SpecFind: "scan", "returned"
    f_width, f_height,
    f_table,   \* SpecFind: the summed-area table searched
    f_rect,    \* SpecFind: the rectangle searched for
    f_k,       \* SpecFind: the anchors visited so far, in the loops' order
    f_avail,   \* available_points
    f_point    \* random_pont

VARIABLES
    i_pc,      \* SpecInc: "init", "rebuilt"
    i_width, i_height,
    i_grid,    \* SpecInc: the raw occupancy grid
    i_start,   \* SpecInc: start_row
    i_table    \* SpecInc: the table handed to to_summed_area_table, then its result

VARIABLES
    pc,                 \* Spec: "start", "for", "place", "done", "panic"
    cfg,                \* the WordCloud configuration (lib.rs:32-43)
    size,               \* the WordCloudSize argument
    words,              \* the analyzer's ranked list
    gray_buffer,        \* the occupancy grid
    summed_area_table,
    skip_list,
    final_words,
    last_freq,
    font_size,
    rng,
    idx,                \* position of the for loop in words (1-based)
    pw,                 \* place_word's locals while pc = "place"
    run,                \* SpecTwice: which call of generate_from_text this is
    prev_words          \* SpecTwice: final_words of the first call

VARIABLES
    t_pc,      \* SpecTok: "init", "counted", "done"
    t_cfg,     \* the ChineseTokenizer's settings (tokenizer.rs:6-15)
    t_text,    \* the segments the regex and jieba cut the text into
    t_raw,     \* get_word_frequencies: the counts by exact surface form
    t_freq,    \* get_word_frequencies: its result, after keep_common_case
    t_out      \* get_normalized_word_frequencies: its result

skip_vars == <<k_pc, k_width, k_height, k_img, k_list>>
find_vars == <<f_pc, f_width, f_height, f_table, f_rect, f_k, f_avail, f_point>>
inc_vars == <<i_pc, i_width, i_height, i_grid, i_start, i_table>>
sat_vars == <<s_pc, s_width, s_height, s_grid, s_table, s_query, s_result, skip_vars,
              find_vars, inc_vars>>
lay_vars == <<pc, cfg, size, words, gray_buffer, summed_area_table, skip_list,
              final_words, last_freq, font_size, rng, idx, pw, run, prev_words>>
tok_vars == <<t_pc, t_cfg, t_text, t_raw, t_freq, t_out>>
vars == <<sat_vars, lay_vars, tok_vars>>

\* The other specifications' variables, parked.
NoBuf == <<>>
SkipIdle ==
    /\ k_pc = "idle" /\ k_width = 0 /\ k_height = 0 /\ k_img = NoBuf
    /\ k_list = <<>>
FindIdle ==
    /\ f_pc = "idle" /\ f_width = 0 /\ f_height = 0 /\ f_table = NoBuf
    /\ f_rect = <<>> /\ f_k = 0 /\ f_avail = 0 /\ f_point = <<>>
IncIdle ==
    /\ i_pc = "idle" /\ i_width = 0 /\ i_height = 0 /\ i_grid = NoBuf
    /\ i_start = 0 /\ i_table = NoBuf
SatOnlyIdle ==
    /\ s_pc = "idle" /\ s_width = 0 /\ s_height = 0 /\ s_grid = NoBuf
    /\ s_table = NoBuf /\ s_query = <<0, 0, 0, 0>> /\ s_result = FALSE
SatIdle ==
    /\ SatOnlyIdle
    /\ SkipIdle /\ FindIdle /\ IncIdle
LayIdle ==
    /\ pc = "idle" /\ cfg = <<>> /\ size = <<>> /\ words = <<>>
    /\ gray_buffer = NoBuf /\ summed_area_table = NoBuf /\ skip_list = <<>>
    /\ final_words = <<>> /\ last_freq = <<1, 1>> /\ font_size = 0
    /\ rng = 0 /\ idx = 0 /\ pw = <<>> /\ run = 0 /\ prev_words = <<>>

TokIdle ==
    /\ t_pc = "idle" /\ t_cfg = <<>> /\ t_text = <<>> /\ t_raw = <<>>
    /\ t_freq = <<>> /\ t_out = <<>>

\* ------------------------------------------------------- SpecSat
SatCells(w, h) == 0 .. w * h - 1

\* The subsets of S of at most k elements.
RECURSIVE SubsetsUpTo(_, _)
SubsetsUpTo(S, k) ==
    IF k = 0 THEN {{}}
    ELSE LET smaller == SubsetsUpTo(S, k - 1)
         IN  smaller \cup {m \cup {c} : m \in smaller, c \in S}

SatGrids(w, h) ==
    {[i \in SatCells(w, h) |-> IF i \in occ THEN 1 ELSE 0] :
        occ \in SubsetsUpTo(SatCells(w, h), SatMaxOcc)}

SatInit ==
    /\ s_pc = "init"
    /\ s_width \in 1 .. SatMaxW
    /\ s_height \in 1 .. SatMaxH
    /\ s_grid \in SatGrids(s_width, s_height)
    /\ s_table = s_grid
    /\ s_query = <<0, 0, 0, 0>>
    /\ s_result = FALSE
    /\ SkipIdle /\ FindIdle /\ IncIdle /\ LayIdle /\ TokIdle

\* The table is built from the raw grid as at lib.rs:135-136.
SatBuild ==
    /\ s_pc = "init"
    /\ s_table' = to_summed_area_table(s_grid, s_width, 0)
    /\ s_pc' = "built"
    /\ UNCHANGED <<s_width, s_height, s_grid, s_query, s_result, skip_vars>>
    /\ UNCHANGED <<find_vars, inc_vars>>
    /\ UNCHANGED <<lay_vars, tok_vars>>

\* One query of the search loop of find_space_for_rect: a rectangle no larger
\* than the grid, x < table_width - rect.width, y < table_height - rect.height.
SatQuery ==
    /\ s_pc \in {"built", "queried"}
    /\ \E w \in 1 .. s_width, h \in 1 .. s_height :
         \E x \in 0 .. s_width - w - 1, y \in 0 .. s_height - h - 1 :
            /\ s_query' = <<x, y, w, h>>
            /\ s_result' = region_is_empty(s_table, s_width, x, y, w, h)
    /\ s_pc' = "queried"
    /\ UNCHANGED <<s_width, s_height, s_grid, s_table, skip_vars>>
    /\ UNCHANGED <<find_vars, inc_vars>>
    /\ UNCHANGED <<lay_vars, tok_vars>>

SatNext == SatBuild \/ SatQuery

SpecSat == SatInit /\ [][SatNext]_vars

\* C1: region_is_empty agrees with a brute-force scan of the w-by-h rectangle
\* whose top-left cell is (x, y), row y and column x included.
C1_QueryIsBruteForce ==
    s_pc = "queried" =>
        s_result = ScanIsEmpty(s_grid, s_width, s_query[1], s_query[2],
                               s_query[3], s_query[4])

\* ------------------------------------------------------------ lib.rs, text.rs
\* nanorand's WyRand is a deterministic generator: a state, advanced by every
\* draw, and an output computed from the new state.  The model keeps the
\* state modulo RngMod.
WyNext(s) == (s * 5 + 59) % RngMod
\* rng.generate::<u8>()
GenU8(s) == (s * 256) \div RngMod
\* rng.generate_range(0..=n)
GenRange(s, n) == s % (n + 1)

\* rng_seed: None
NoSeed == -1

\* A mutant of lines 150-153: the seed is not used.
SeedRngIgnored(rng_seed, entropy) == entropy

\* lib.rs:150-153: WyRand::new_seed(seed), or WyRand::new(), which seeds
\* itself from the system's entropy.
SeedRng(rng_seed, entropy) ==
    IF rng_seed = NoSeed THEN entropy ELSE rng_seed % RngMod

CeilDiv(a, b) == (a + b - 1) \div b

\* The f32 NaN, which 0.0 / 0.0 yields (lib.rs:172): every comparison with it
\* is false, arithmetic on it gives NaN, and `NaN as u32` is 0.
NaN == -1
\* a < b on f32
FloatLess(a, b) == a # NaN /\ b # NaN /\ a < b

\* text_to_glyphs: height = ceil(font.height()) which is the scale, width =
\* ceil(sum of the advances); every character advances by the scale.  The
\* scale is num / den.
text_to_glyphs(len, num, den) ==
    IF num = NaN THEN [width |-> 0, height |-> 0]
    ELSE [width |-> CeilDiv(len * num, den), height |-> CeilDiv(num, den)]

\* place_word lines 262-272: the rectangle handed to the search.
PlaceRect(glyphs, rotate, margin) ==
    IF rotate
    THEN [width |-> glyphs.height + margin, height |-> glyphs.width + margin]
    ELSE [width |-> glyphs.width + margin, height |-> glyphs.height + margin]

\* text_dimensions_at_font_size
text_dimensions_at_font_size(len, num, den, margin) ==
    PlaceRect(text_to_glyphs(len, num, den), FALSE, margin)

\* A mutant of check_font_size: the size goes down by 1 whatever the step.
check_font_size_by_one(fs, font_step, min_font_size) ==
    LET next_font_size == IF fs = NaN THEN NaN ELSE fs - 1
    IN  IF next_font_size # NaN /\ next_font_size >= min_font_size
           /\ next_font_size > 0
        THEN next_font_size ELSE 0

\* check_font_size: the next size, or 0 for None (a returned size is > 0).
check_font_size(fs, font_step, min_font_size) ==
    LET next_font_size == IF fs = NaN THEN NaN ELSE fs - font_step
    IN  IF next_font_size # NaN /\ next_font_size >= min_font_size
           /\ next_font_size > 0
        THEN next_font_size ELSE 0

\* u8_to_u32_vec: dst[i] = buffer[i] as u32.
u8_to_u32_vec(buffer) == [i \in DOMAIN buffer |-> buffer[i]]

\* create_mask_skip_list, one row: rposition consumes the row from the back
\* up to and including the pixel it finds; position then searches what is left.
SkipRow(img, img_width, y) ==
    LET zeros == {c \in 0 .. img_width - 1 : img[y * img_width + c] = 0}
        furthest_right ==
            IF zeros = {} THEN img_width
            ELSE CHOOSE c \in zeros : \A d \in zeros : d <= c
        left_of == {c \in zeros : c < furthest_right}
        furthest_left ==
            IF left_of = {} THEN 0
            ELSE CHOOSE c \in left_of : \A d \in left_of : c <= d
    IN  <<furthest_left, furthest_right>>

create_mask_skip_list(img, img_width, img_height) ==
    [y \in 0 .. img_height - 1 |-> SkipRow(img, img_width, y)]

NoPoint == <<-1, -1>>

RECURSIVE FindScan(_, _, _, _, _, _, _, _, _)
\* The two loops of find_space_for_rect from anchor number k on, row by row.
FindScan(tab, tw, rect, max_x, max_y, k, avail, pick, r) ==
    IF max_x <= 0 \/ k >= max_x * max_y THEN [point |-> pick, rng |-> r]
    ELSE LET x == k % max_x
             y == k \div max_x
         IN  IF region_is_empty(tab, tw, x, y, rect.width, rect.height)
             THEN LET r2 == WyNext(r)
                      random_num == GenRange(r2, avail)
                  IN  FindScan(tab, tw, rect, max_x, max_y, k + 1, avail + 1,
                               IF random_num = avail THEN <<x, y>> ELSE pick, r2)
             ELSE FindScan(tab, tw, rect, max_x, max_y, k + 1, avail, pick, r)

find_space_for_rect(tab, table_width, table_height, rect, r) ==
    FindScan(tab, table_width, rect, table_width - rect.width,
             table_height - rect.height, 0, 0, NoPoint, r)

RECURSIVE FindScanMasked(_, _, _, _, _, _, _, _, _, _)
\* find_space_for_rect_masked is not in sat.rs; after the specification
\* (4.3, State D) it is the same scan with the columns of row y restricted
\* to the SkipRow bounds of that row.
FindScanMasked(tab, tw, skips, rect, max_x, max_y, k, avail, pick, r) ==
    IF max_x <= 0 \/ k >= max_x * max_y THEN [point |-> pick, rng |-> r]
    ELSE LET x == k % max_x
             y == k \div max_x
         IN  IF /\ skips[y][1] <= x /\ x <= skips[y][2]
                /\ region_is_empty(tab, tw, x, y, rect.width, rect.height)
             THEN LET r2 == WyNext(r)
                      random_num == GenRange(r2, avail)
                  IN  FindScanMasked(tab, tw, skips, rect, max_x, max_y, k + 1,
                                     avail + 1,
                                     IF random_num = avail THEN <<x, y>> ELSE pick,
                                     r2)
             ELSE FindScanMasked(tab, tw, skips, rect, max_x, max_y, k + 1,
                                 avail, pick, r)

find_space_for_rect_masked(tab, table_width, table_height, skips, rect, r) ==
    FindScanMasked(tab, table_width, skips, rect, table_width - rect.width,
                   table_height - rect.height, 0, 0, NoPoint, r)

\* A mutant of draw_glyphs_to_gray_buffer: the buffer is cleared before the
\* word is drawn.
DrawOnCleared(buffer, w, px, py, glyphs) ==
    [i \in DOMAIN buffer |->
        IF <<i % w, i \div w>> \in RectCells(px, py, glyphs.width, glyphs.height)
        THEN 1 ELSE 0]

\* draw_glyphs_to_gray_buffer: the callback of outlined.draw runs for every
\* pixel of a glyph's pixel bounds and writes Luma([1]) whatever the coverage;
\* _rotate is not used, the glyphs are drawn upright.  point is the anchor
\* plus half the margin, truncated by `as u32`.
InkCells(px, py, glyphs) == RectCells(px, py, glyphs.width, glyphs.height)

\* get_pixel_mut panics outside the image.
DrawPanics(w, h, px, py, glyphs) ==
    \E c \in InkCells(px, py, glyphs) : c[1] >= w \/ c[2] >= h

draw_glyphs_to_gray_buffer(buffer, w, px, py, glyphs) ==
    [i \in DOMAIN buffer |->
        IF <<i % w, i \div w>> \in InkCells(px, py, glyphs) THEN 1 ELSE buffer[i]]

\* lib.rs:227: (pos.y - 1.0).min(0.0) as usize; a negative float casts to 0.
StartRow(pos_y) == Max(0, Min(pos_y - 1, 0))

\* A mutant of lib.rs:181: last_freq / freq in the place of freq / last_freq.
ScaleFontInverse(fs, rfs2, freq, last) ==
    IF fs = NaN THEN NaN ELSE
    (fs * (rfs2 * last[1] * freq[2] + (2 - rfs2) * last[2] * freq[1]))
        \div (2 * last[2] * freq[1])

\* lib.rs:180-183: font_size *= scaling * (freq / last_freq) + (1 - scaling),
\* scaling = cfg.rfs2 / 2, frequencies are fractions <<num, den>>; the
\* product is rounded down to the model's integer sizes.
ScaleFont(fs, rfs2, freq, last) ==
    IF fs = NaN THEN NaN ELSE
    (fs * (rfs2 * freq[1] * last[2] + (2 - rfs2) * freq[2] * last[1]))
        \div (2 * freq[2] * last[1])

\* The image of a WordCloudSize, lib.rs:127-139.
SizeWidth(sz) == sz.width
SizeHeight(sz) == sz.height
InitialBuffer(sz) ==
    IF sz.kind = "dims" THEN [i \in 0 .. sz.width * sz.height - 1 |-> 0]
    ELSE sz.image
InitialTable(sz) ==
    IF sz.kind = "dims" THEN u8_to_u32_vec(InitialBuffer(sz))
    ELSE to_summed_area_table([i \in DOMAIN sz.image |-> sz.image[i]],
                              sz.width, 0)

\* lib.rs:159-177: the starting font size from the first word at 55% of the
\* canvas height, scaled by the share of black pixels (has_mask always
\* matches, see HasMask).
StartFontSize(sz, first_len, margin) ==
    LET r == text_dimensions_at_font_size(first_len, sz.height * 55, 100, margin)
        buf == InitialBuffer(sz)
        black == Cardinality({i \in DOMAIN buf : buf[i] = 0})
        total == sz.width * sz.height
    IN  IF total = 0 THEN NaN      \* available_space = 0 / 0
        ELSE (sz.width * r.height * black) \div (r.width * total)

\* lib.rs:143 and 170: matches!(WordCloudSize::FromMask, _size) binds _size
\* and matches whatever the size is.
HasMask(sz) == TRUE

\* ------------------------------------------------------------ tokenizer.rs
\* A surface form is the sequence of its characters' code points, so that
\* lower-casing and the byte-wise order of &str are what they are in Rust.
\* "AB", "Ab", "ab", "b" and the number "7".
Vocab == {<<65, 66>>, <<65, 98>>, <<97, 98>>, <<98>>, <<55>>}

LowerChar(c) == IF c >= 65 /\ c <= 90 THEN c + 32 ELSE c
\* str::to_lowercase
to_lowercase(w) == [i \in 1 .. Len(w) |-> LowerChar(w[i])]
\* char::is_numeric
is_numeric(c) == c >= 48 /\ c <= 57

RECURSIVE StrLess(_, _)
\* a < b for &str: lexicographic on the bytes.
StrLess(a, b) ==
    IF b = <<>> THEN FALSE
    ELSE IF a = <<>> THEN TRUE
    ELSE IF a[1] # b[1] THEN a[1] < b[1]
    ELSE StrLess(Tail(a), Tail(b))

\* A mutant of the filter of lines 80-85: the segment is looked up as it is.
PassesAsWritten(w, c) ==
    /\ c.min_word_length > 0 => Len(w) >= c.min_word_length
    /\ c.exclude_numbers => ~(\A i \in 1 .. Len(w) : is_numeric(w[i]))
    /\ c.filter # {} => w \notin c.filter


\* tokenize, lines 69-85: the filters a segment has to pass.
Passes(w, c) ==
    /\ c.min_word_length > 0 => Len(w) >= c.min_word_length
    /\ c.exclude_numbers => ~(\A i \in 1 .. Len(w) : is_numeric(w[i]))
    /\ c.filter # {} => to_lowercase(w) \notin c.filter

\* with_filter, lines 49-53: the exclusion set holds the lower-cased words.
with_filter(value) == {to_lowercase(el) : el \in value}

tokenize(text, c) == SelectSeq(text, LAMBDA w : Passes(w, c))

\* get_word_frequencies, lines 91-96: the count of every surface form.
CountWords(toks) ==
    [w \in {toks[i] : i \in 1 .. Len(toks)} |->
        Cardinality({i \in 1 .. Len(toks) : toks[i] = w})]

RECURSIVE MapSum(_, _)
MapSum(f, keys) ==
    IF keys = {} THEN 0
    ELSE LET k == CHOOSE k \in keys : TRUE IN f[k] + MapSum(f, keys \ {k})

\* The orders a HashMap may hand its keys out in.
Orders(keys) ==
    {o \in [1 .. Cardinality(keys) -> keys] :
        \A i, j \in 1 .. Cardinality(keys) : i # j => o[i] # o[j]}

\* A mutant of the comparator of lines 122-128: ties go to the smaller form.
CaseBeforeAsc(a, b) ==
    IF a[2] # b[2] THEN b[2] < a[2] ELSE StrLess(a[1], b[1])

\* The comparator of lines 122-128 answers Less: higher count first, then
\* the greater surface form.  Entries are <<form, count>>.
CaseBefore(a, b) ==
    IF a[2] # b[2] THEN b[2] < a[2] ELSE StrLess(b[1], a[1])

\* A mutant of the comparator of lines 154-160: ties are left as they come.
NormBeforeNoTie(a, b) ==
    a[2][1] * b[2][2] > b[2][1] * a[2][2]

\* The comparator of lines 154-160 answers Less: higher weight first, then
\* the smaller surface form.  Entries are <<form, <<num, den>>>>.
FracLess(p, q) == p[1] * q[2] < q[1] * p[2]
NormBefore(a, b) ==
    IF a[2] # b[2] THEN FracLess(b[2], a[2]) ELSE StrLess(a[1], b[1])

RECURSIVE InsertBy(_, _, _)
\* x goes in front of the first entry it is Less than (a stable sort).
InsertBy(mode, x, s) ==
    IF s = <<>> THEN <<x>>
    ELSE IF (IF mode = "case" THEN CaseBefore(x, s[1]) ELSE NormBefore(x, s[1]))
         THEN <<x>> \o s
         ELSE <<s[1]>> \o InsertBy(mode, x, Tail(s))

RECURSIVE SortFrom(_, _, _, _)
SortFrom(mode, v, i, acc) ==
    IF i > Len(v) THEN acc ELSE SortFrom(mode, v, i + 1, InsertBy(mode, v[i], acc))
\* slice::sort_by
sort_by(mode, v) == SortFrom(mode, v, 1, <<>>)

\* keep_common_case: order is the order the maps are iterated in.
CaseGroup(map, low) == {k \in DOMAIN map : to_lowercase(k) = low}
MostCommonCase(map, low, order) ==
    LET most_common_case ==
            sort_by("case",
                    SelectSeq([i \in 1 .. Len(order) |-> <<order[i], map[order[i]]>>],
                              LAMBDA e : e[1] \in CaseGroup(map, low)))
    IN  most_common_case[1][1]
keep_common_case(map, order) ==
    LET lows == {to_lowercase(k) : k \in DOMAIN map}
        reps == {MostCommonCase(map, low, order) : low \in lows}
    IN  [r \in reps |-> MapSum(map, CaseGroup(map, to_lowercase(r)))]

RECURSIVE Gcd(_, _)
Gcd(a, b) == IF b = 0 THEN a ELSE Gcd(b, a % b)
\* val as f32 / max_freq (tokenizer.rs:151) as a fraction in lowest terms.
Weight(val, max_freq) ==
    <<val \div Gcd(val, max_freq), max_freq \div Gcd(val, max_freq)>>

\* A mutant of the maximum of lines 144-147: the total instead.
TotalFreq(freqs) == MapSum(freqs, DOMAIN freqs)

\* lines 144-147: the largest count.
MaxFreq(freqs) ==
    CHOOSE m \in {freqs[k] : k \in DOMAIN freqs} : \A k \in DOMAIN freqs : freqs[k] <= m

\* A mutant of lines 162-164: nothing is cut.
TruncateNone(v, max_words) == v

\* lines 162-164
Truncate(v, max_words) ==
    IF max_words > 0 THEN SubSeq(v, 1, Min(max_words, Len(v))) ELSE v

\* get_normalized_word_frequencies from line 140 on; order is the order
\* frequencies.into_iter() yields.
Normalized(freqs, order, max_words) ==
    IF DOMAIN freqs = {} THEN <<>>
    ELSE Truncate(sort_by("norm",
                          [i \in 1 .. Len(order) |->
                              <<order[i], Weight(freqs[order[i]], MaxFreq(freqs))>>]),
                  max_words)

\* ------------------------------------------------------- SpecTok
Texts == UNION {[1 .. n -> Vocab] : n \in 0 .. MaxTextLen}
TokConfigs ==
    [min_word_length : {0, 2},
     exclude_numbers : BOOLEAN,
     filter : {with_filter({}), with_filter({<<65, 66>>})},
     max_words : {0, 1},
     repeat : {FALSE}]

TokInit ==
    /\ t_pc = "init"
    /\ t_cfg \in TokConfigs
    /\ t_text \in Texts
    /\ t_raw = <<>>
    /\ t_freq = <<>>
    /\ t_out = <<>>
    /\ SatIdle /\ LayIdle

\* get_word_frequencies
GetWordFrequencies ==
    /\ t_pc = "init"
    /\ t_raw' = CountWords(tokenize(t_text, t_cfg))
    /\ \E order \in Orders(DOMAIN t_raw') :
          t_freq' = keep_common_case(t_raw', order)
    /\ t_pc' = "counted"
    /\ UNCHANGED <<t_cfg, t_text, t_out>>
    /\ UNCHANGED <<sat_vars, lay_vars>>

\* get_normalized_word_frequencies, after its call of get_word_frequencies
GetNormalized ==
    /\ t_pc = "counted"
    /\ \E order \in Orders(DOMAIN t_freq) :
          t_out' = Normalized(t_freq, order, t_cfg.max_words)
    /\ t_pc' = "done"
    /\ UNCHANGED <<t_cfg, t_text, t_raw, t_freq>>
    /\ UNCHANGED <<sat_vars, lay_vars>>

TokNext == GetWordFrequencies \/ GetNormalized

SpecTok == TokInit /\ [][TokNext]_vars

\* ------------------------------------------------------- properties of SpecTok
OutEntries == {t_out[i] : i \in 1 .. Len(t_out)}

\* C8: in a non-empty analyzer output the largest weight is exactly 1.0 and
\* every weight lies in (0, 1].
C8_Normalized ==
    t_pc = "done" /\ t_out # <<>> =>
        /\ \E e \in OutEntries : e[2] = <<1, 1>>
        /\ \A e \in OutEntries : 0 < e[2][1] /\ e[2][1] <= e[2][2]
\* An output of two entries of different weight.
C8_Witness ==
    /\ t_pc = "done" /\ Len(t_out) = 2 /\ t_out[1][2] # t_out[2][2]

\* C9: the output is sorted by weight descending, of two entries of equal
\* weight the lexicographically smaller surface form comes first, and every
\* iteration order of the count map gives this same output.
C9_Sorted ==
    t_pc = "done" =>
        /\ \A i, j \in 1 .. Len(t_out) :
              i < j => \/ FracLess(t_out[j][2], t_out[i][2])
                       \/ t_out[i][2] = t_out[j][2] /\ StrLess(t_out[i][1], t_out[j][1])
        /\ \A order \in Orders(DOMAIN t_freq) :
              Normalized(t_freq, order, t_cfg.max_words) = t_out
\* An entry of weight 1 and two of equal, smaller weight in the output.
C9_Witness ==
    /\ t_pc = "done" /\ Len(t_out) = 3
    /\ t_out[1][2] # t_out[2][2] /\ t_out[2][2] = t_out[3][2]

\* C10: the surface forms that lower-case to the same string are merged into
\* exactly one entry; its count is the sum of the group's counts and its
\* surface form is the member of the highest count, of those the
\* lexicographically greatest.
C10_CaseMerge ==
    t_pc \in {"counted", "done"} =>
        \A low \in {to_lowercase(k) : k \in DOMAIN t_raw} :
            LET members == {k \in DOMAIN t_raw : to_lowercase(k) = low}
                kept == {k \in DOMAIN t_freq : to_lowercase(k) = low}
            IN  /\ Cardinality(kept) = 1
                /\ \A rep \in kept :
                    /\ rep \in members
                    /\ t_freq[rep] = MapSum(t_raw, members)
                    /\ \A m \in members \ {rep} :
                          \/ t_raw[m] < t_raw[rep]
                          \/ t_raw[m] = t_raw[rep] /\ StrLess(m, rep)
\* "AB Ab ab": three forms of one word, once each, merged into "ab" with
\* count 3.
C10_Witness ==
    /\ t_pc = "counted"
    /\ Cardinality(DOMAIN t_raw) = 3
    /\ \A k \in DOMAIN t_raw : t_raw[k] = 1
    /\ DOMAIN t_freq = {<<97, 98>>} /\ t_freq[<<97, 98>>] = 3

\* C11: a segment shorter than min_word_length, an all-numeric segment when
\* exclude_numbers is set, and a segment whose lower-cased form is in the
\* exclusion set is neither counted nor in the output; every other segment of
\* the text is counted, once for each of its occurrences.
Segments == {t_text[i] : i \in 1 .. Len(t_text)}
Dropped(w) ==
    \/ Len(w) < t_cfg.min_word_length
    \/ t_cfg.exclude_numbers /\ \A i \in 1 .. Len(w) : is_numeric(w[i])
    \/ to_lowercase(w) \in t_cfg.filter
C11_Filtered ==
    t_pc \in {"counted", "done"} =>
        /\ DOMAIN t_raw = {w \in Segments : ~Dropped(w)}
        /\ \A w \in DOMAIN t_raw :
              t_raw[w] = Cardinality({i \in 1 .. Len(t_text) : t_text[i] = w})
        /\ \A w \in DOMAIN t_freq : w \in Segments /\ ~Dropped(w)
        /\ \A e \in OutEntries : e[1] \in Segments /\ ~Dropped(e[1])
\* "AB 7 b" with numbers excluded and "AB" in the exclusion list: only "b" is
\* left; and "ab b" with min_word_length 2 would leave only "ab".
C11_Witness ==
    /\ t_pc = "done"
    /\ t_cfg.exclude_numbers /\ t_cfg.filter # {} /\ t_cfg.min_word_length = 0
    /\ {<<65, 66>>, <<55>>, <<98>>} \subseteq Segments
    /\ Len(t_out) = 1 /\ t_out[1][1] = <<98>>

\* ------------------------------------------------------- Spec: a layout run
Cells == 0 .. CanvasW * CanvasH - 1

\* Mask images: pixel 0 is placeable, any other value (255 here) is not.
Masks ==
    {[i \in Cells |-> IF i \in occ THEN 255 ELSE 0] :
        occ \in SubsetsUpTo(Cells, MaxMaskOcc)}

Sizes ==
    {[kind |-> "dims", width |-> CanvasW, height |-> CanvasH, image |-> NoBuf]}
    \cup {[kind |-> "mask", width |-> CanvasW, height |-> CanvasH, image |-> m] :
            m \in Masks}

\* What get_normalized_word_frequencies returns: counts of 1 .. MaxCount,
\* non-increasing, each divided by the first (the largest).
CountLists ==
    UNION {{c \in [1 .. n -> 1 .. MaxCount] :
                \A i \in 1 .. n - 1 : c[i] >= c[i + 1]} : n \in 0 .. MaxWords}
RankedLists ==
    UNION {{[i \in 1 .. Len(c) |-> [len |-> l[i], freq |-> Weight(c[i], c[1])]] :
                l \in [1 .. Len(c) -> 1 .. MaxChars]} : c \in CountLists}

\* max_font_size: None (lib.rs:54)
NoMax == 0

Configs ==
    [word_margin : {0, 2},
     rotate_chance10 : {0, 10},      \* word_rotate_chance in tenths
     min_font_size : {1, 3},
     max_font_size : {NoMax},
     font_step : {1},
     rfs2 : {0, 1},                  \* relative_font_scaling in halves
     repeat : {FALSE},
     rng_seed : 0 .. MaxSeed]

Init ==
    /\ pc = "start"
    /\ cfg \in Configs
    /\ size \in Sizes
    /\ words \in RankedLists
    /\ gray_buffer = NoBuf
    /\ summed_area_table = NoBuf
    /\ skip_list = <<>>
    /\ final_words = <<>>
    /\ last_freq = <<1, 1>>
    /\ font_size = 0
    /\ rng = 0
    /\ idx = 0
    /\ pw = <<>>
    /\ run = 1
    /\ prev_words = <<>>
    /\ SatIdle /\ TokIdle

Width == SizeWidth(size)
Height == SizeHeight(size)

\* A mutant of lib.rs:155: no expect, an empty list goes on into the loop.
StartUnchecked ==
    /\ pc = "start"
    /\ gray_buffer' = InitialBuffer(size)
    /\ summed_area_table' = InitialTable(size)
    /\ skip_list' = create_mask_skip_list(InitialBuffer(size), Width, Height)
    /\ \E entropy \in 0 .. MaxSeed : rng' = SeedRng(cfg.rng_seed, entropy)
    /\ pc' = "for"
    /\ idx' = 1
    /\ font_size' = IF words = <<>> THEN 0
                    ELSE StartFontSize(size, words[1].len, cfg.word_margin)
    /\ UNCHANGED <<cfg, size, words, final_words, last_freq, pw>>
    /\ UNCHANGED <<sat_vars, tok_vars, run, prev_words>>

\* lib.rs:125-177, up to the for loop.
Start ==
    /\ pc = "start"
    /\ gray_buffer' = InitialBuffer(size)
    /\ summed_area_table' = InitialTable(size)
    /\ skip_list' = IF HasMask(size)
                    THEN create_mask_skip_list(InitialBuffer(size), Width, Height)
                    ELSE <<>>
    /\ \E entropy \in 0 .. MaxSeed : rng' = SeedRng(cfg.rng_seed, entropy)
    /\ IF words = <<>>
       THEN pc' = "panic" /\ UNCHANGED <<font_size, idx>>   \* "There are no words!"
       ELSE /\ pc' = "for"
            /\ idx' = 1
            /\ font_size' = StartFontSize(size, words[1].len, cfg.word_margin)
    /\ UNCHANGED <<cfg, size, words, final_words, last_freq, pw>>
    /\ UNCHANGED <<sat_vars, tok_vars, run, prev_words>>

\* The size after lib.rs:180-183.
ScaledSize ==
    IF ~cfg.repeat /\ cfg.rfs2 # 0
    THEN ScaleFont(font_size, cfg.rfs2, words[idx].freq, last_freq)
    ELSE font_size

\* The loop has run out of words: generate_from_word_positions, return.
ForEnd ==
    /\ pc = "for" /\ idx > Len(words)
    /\ pc' = "done"
    /\ UNCHANGED <<cfg, size, words, gray_buffer, summed_area_table, skip_list,
                   final_words, last_freq, font_size, rng, idx, pw>>
    /\ UNCHANGED <<sat_vars, tok_vars, run, prev_words>>

\* A mutant of lib.rs:185-187: `continue` in the place of `break`.
ForBreakContinue ==
    /\ pc = "for" /\ idx <= Len(words)
    /\ FloatLess(ScaledSize, cfg.min_font_size)
    /\ font_size' = ScaledSize
    /\ idx' = idx + 1
    /\ UNCHANGED <<pc, cfg, size, words, gray_buffer, summed_area_table, skip_list,
                   final_words, last_freq, rng, pw>>
    /\ UNCHANGED <<sat_vars, tok_vars, run, prev_words>>

\* lib.rs:185-187: break.
ForBreak ==
    /\ pc = "for" /\ idx <= Len(words)
    /\ FloatLess(ScaledSize, cfg.min_font_size)
    /\ font_size' = ScaledSize
    /\ pc' = "done"
    /\ UNCHANGED <<cfg, size, words, gray_buffer, summed_area_table, skip_list,
                   final_words, last_freq, rng, idx, pw>>
    /\ UNCHANGED <<sat_vars, tok_vars, run, prev_words>>

\* place_word is entered: lines 257-259.
ForEnter ==
    /\ pc = "for" /\ idx <= Len(words)
    /\ ~FloatLess(ScaledSize, cfg.min_font_size)
    /\ font_size' = ScaledSize
    /\ rng' = WyNext(rng)
    /\ pw' = [font_size |-> ScaledSize,
              initial_font_size |-> ScaledSize,
              shold_rotate |-> GenU8(WyNext(rng)) <= (255 * cfg.rotate_chance10) \div 10,
              tried_rotate |-> FALSE,
              turns |-> 1]        \* the turn of the loop at line 260 it is in
    /\ pc' = "place"
    /\ UNCHANGED <<cfg, size, words, gray_buffer, summed_area_table, skip_list,
                   final_words, last_freq, idx>>
    /\ UNCHANGED <<sat_vars, tok_vars, run, prev_words>>

\* One turn of place_word's loop.
Glyphs == text_to_glyphs(words[idx].len, pw.font_size, 1)
Rect == PlaceRect(Glyphs, pw.shold_rotate, cfg.word_margin)
TooBig == Rect.width > Width \/ Rect.height > Height
NextSize == check_font_size(pw.font_size, cfg.font_step, cfg.min_font_size)
PlaceRes ==
    IF HasMask(size)
    THEN find_space_for_rect_masked(summed_area_table, Width, Height, skip_list,
                                    Rect, rng)
    ELSE find_space_for_rect(summed_area_table, Width, Height, Rect, rng)

\* lines 274-279
PlaceTooBigDecay ==
    /\ pc = "place" /\ TooBig /\ NextSize # 0
    /\ pw.turns < MaxTurns
    /\ pw' = [pw EXCEPT !.font_size = NextSize, !.turns = @ + 1]
    /\ UNCHANGED <<pc, cfg, size, words, gray_buffer, summed_area_table, skip_list,
                   final_words, last_freq, font_size, rng, idx>>
    /\ UNCHANGED <<sat_vars, tok_vars, run, prev_words>>

\* A mutant of lines 201-204: the failed word's frequency becomes last_freq.
PlaceTooBigFailFreq ==
    /\ pc = "place" /\ TooBig /\ NextSize = 0
    /\ font_size' = pw.font_size
    /\ last_freq' = words[idx].freq
    /\ idx' = idx + 1
    /\ pc' = "for"
    /\ UNCHANGED <<cfg, size, words, gray_buffer, summed_area_table, skip_list,
                   final_words, rng, pw>>
    /\ UNCHANGED <<sat_vars, tok_vars, run, prev_words>>

\* lines 280-282 and 201-204: Err(font_size), continue.
PlaceTooBigFail ==
    /\ pc = "place" /\ TooBig /\ NextSize = 0
    /\ font_size' = pw.font_size
    /\ idx' = idx + 1
    /\ pc' = "for"
    /\ UNCHANGED <<cfg, size, words, gray_buffer, summed_area_table, skip_list,
                   final_words, last_freq, rng, pw>>
    /\ UNCHANGED <<sat_vars, tok_vars, run, prev_words>>

\* lines 311-315
PlaceNoneDecay ==
    /\ pc = "place" /\ ~TooBig /\ PlaceRes.point = NoPoint /\ NextSize # 0
    /\ pw.turns < MaxTurns
    /\ pw' = [pw EXCEPT !.font_size = NextSize, !.turns = @ + 1]
    /\ rng' = PlaceRes.rng
    /\ UNCHANGED <<pc, cfg, size, words, gray_buffer, summed_area_table, skip_list,
                   final_words, last_freq, font_size, idx>>
    /\ UNCHANGED <<sat_vars, tok_vars, run, prev_words>>

\* lines 316-320
PlaceRotateRetry ==
    /\ pc = "place" /\ ~TooBig /\ PlaceRes.point = NoPoint /\ NextSize = 0
    /\ ~pw.tried_rotate
    /\ pw.turns < MaxTurns
    /\ pw' = [pw EXCEPT !.shold_rotate = TRUE, !.tried_rotate = TRUE,
                        !.font_size = pw.initial_font_size, !.turns = @ + 1]
    /\ rng' = PlaceRes.rng
    /\ UNCHANGED <<pc, cfg, size, words, gray_buffer, summed_area_table, skip_list,
                   final_words, last_freq, font_size, idx>>
    /\ UNCHANGED <<sat_vars, tok_vars, run, prev_words>>

\* A mutant of lines 201-204: the failure of a word discards the words
\* placed so far.
PlaceFailDiscards ==
    /\ pc = "place" /\ ~TooBig /\ PlaceRes.point = NoPoint /\ NextSize = 0
    /\ pw.tried_rotate
    /\ font_size' = pw.font_size
    /\ rng' = PlaceRes.rng
    /\ idx' = idx + 1
    /\ final_words' = <<>>
    /\ pc' = "for"
    /\ UNCHANGED <<cfg, size, words, gray_buffer, summed_area_table, skip_list,
                   last_freq, pw>>
    /\ UNCHANGED <<sat_vars, tok_vars, run, prev_words>>

\* A mutant of lines 201-204: the size in Err is dropped, font_size stays
\* what it was when the word was entered.
PlaceFailKeepsEntry ==
    /\ pc = "place" /\ ~TooBig /\ PlaceRes.point = NoPoint /\ NextSize = 0
    /\ pw.tried_rotate
    /\ rng' = PlaceRes.rng
    /\ idx' = idx + 1
    /\ pc' = "for"
    /\ UNCHANGED <<cfg, size, words, gray_buffer, summed_area_table, skip_list,
                   final_words, last_freq, font_size, pw>>
    /\ UNCHANGED <<sat_vars, tok_vars, run, prev_words>>

\* lines 321-323 and 201-204
PlaceFail ==
    /\ pc = "place" /\ ~TooBig /\ PlaceRes.point = NoPoint /\ NextSize = 0
    /\ pw.tried_rotate
    /\ font_size' = pw.font_size
    /\ rng' = PlaceRes.rng
    /\ idx' = idx + 1
    /\ pc' = "for"
    /\ UNCHANGED <<cfg, size, words, gray_buffer, summed_area_table, skip_list,
                   final_words, last_freq, pw>>
    /\ UNCHANGED <<sat_vars, tok_vars, run, prev_words>>

\* The point place_word returns (lines 305-309) as draw_glyphs_to_gray_buffer
\* reads it: point.x as u32.
PointX == PlaceRes.point[1] + cfg.word_margin \div 2
PointY == PlaceRes.point[2] + cfg.word_margin \div 2

\* Ok(..) and the draw at lib.rs:207-213 panics in get_pixel_mut.
PlaceFoundPanic ==
    /\ pc = "place" /\ ~TooBig /\ PlaceRes.point # NoPoint
    /\ DrawPanics(Width, Height, PointX, PointY, Glyphs)
    /\ font_size' = pw.font_size
    /\ rng' = PlaceRes.rng
    /\ pc' = "panic"
    /\ UNCHANGED <<cfg, size, words, gray_buffer, summed_area_table, skip_list,
                   final_words, last_freq, idx, pw>>
    /\ UNCHANGED <<sat_vars, tok_vars, run, prev_words>>

\* A mutant of the for loop at lib.rs:179: after a commit the loop stays on
\* the same word.
PlaceFoundAgain ==
    /\ pc = "place" /\ ~TooBig /\ PlaceRes.point # NoPoint
    /\ ~DrawPanics(Width, Height, PointX, PointY, Glyphs)
    /\ font_size' = pw.font_size
    /\ rng' = PlaceRes.rng
    /\ gray_buffer' = draw_glyphs_to_gray_buffer(gray_buffer, Width, PointX, PointY,
                                                 Glyphs)
    /\ final_words' = Append(final_words,
            [text |-> idx, font_size |-> pw.font_size, glyphs |-> Glyphs,
             rotated |-> pw.shold_rotate, position |-> <<PointX, PointY>>,
             frequency |-> words[idx].freq, index |-> Len(final_words),
             anchor |-> PlaceRes.point, rect |-> Rect])
    /\ summed_area_table' =
            to_summed_area_table(u8_to_u32_vec(gray_buffer'), Width, StartRow(PointY))
    /\ last_freq' = words[idx].freq
    /\ idx' = idx
    /\ pc' = "for"
    /\ UNCHANGED <<cfg, size, words, skip_list, pw>>
    /\ UNCHANGED <<sat_vars, tok_vars, run, prev_words>>

\* Ok(..) and the commit, lib.rs:197-200 and 207-234.  The record's text is
\* the word's rank in `words`: it names the word the glyphs were made from
\* (the field of the code borrows the whole input, lib.rs:216).
PlaceFound ==
    /\ pc = "place" /\ ~TooBig /\ PlaceRes.point # NoPoint
    /\ ~DrawPanics(Width, Height, PointX, PointY, Glyphs)
    /\ font_size' = pw.font_size
    /\ rng' = PlaceRes.rng
    /\ gray_buffer' = draw_glyphs_to_gray_buffer(gray_buffer, Width, PointX, PointY,
                                                 Glyphs)
    /\ final_words' = Append(final_words,
            [text |-> idx, font_size |-> pw.font_size, glyphs |-> Glyphs,
             rotated |-> pw.shold_rotate, position |-> <<PointX, PointY>>,
             frequency |-> words[idx].freq, index |-> Len(final_words),
             \* what the search reserved, kept for the properties
             anchor |-> PlaceRes.point, rect |-> Rect])
    /\ summed_area_table' =
            to_summed_area_table(u8_to_u32_vec(gray_buffer'), Width, StartRow(PointY))
    /\ last_freq' = words[idx].freq
    /\ idx' = idx + 1
    /\ pc' = "for"
    /\ UNCHANGED <<cfg, size, words, skip_list, pw>>
    /\ UNCHANGED <<sat_vars, tok_vars, run, prev_words>>

Next ==
    \/ Start
    \/ ForEnd
    \/ ForBreak
    \/ ForEnter
    \/ PlaceTooBigDecay
    \/ PlaceTooBigFail
    \/ PlaceNoneDecay
    \/ PlaceRotateRetry
    \/ PlaceFail
    \/ PlaceFoundPanic
    \/ PlaceFound

Spec == Init /\ [][Next]_vars

\* ------------------------------------------------------- properties of Spec
\* The cells the search reserved for a placed word: its anchor and the
\* margin-inflated rectangle at the committed orientation.
Reserved(w) == RectCells(w.anchor[1], w.anchor[2], w.rect.width, w.rect.height)
Placed == {final_words[i] : i \in 1 .. Len(final_words)}
\* The anchors and rectangles the search may pass to region_is_empty.
Queries ==
    {q \in (0 .. Width - 1) \X (0 .. Height - 1) \X (1 .. Width) \X (1 .. Height) :
        q[1] + q[3] < Width /\ q[2] + q[4] < Height}
QueryOf(tab, q) == region_is_empty(tab, Width, q[1], q[2], q[3], q[4])

\* C2: the reserved rectangles of any two distinct placed words share no
\* cell, upright or rotated.
C2_ReservedDisjoint ==
    \A i, j \in 1 .. Len(final_words) :
        i < j => Reserved(final_words[i]) \cap Reserved(final_words[j]) = {}

\* C3: after a commit, the query on the committed rectangle at its anchor
\* answers false, and the query on any rectangle disjoint from it answers as
\* it did before the commit.
C3_CommitFrame ==
    [][Len(final_words') = Len(final_words) + 1 =>
        LET w == final_words'[Len(final_words')]
            own == <<w.anchor[1], w.anchor[2], w.rect.width, w.rect.height>>
        IN  /\ ~QueryOf(summed_area_table', own)
            /\ \A q \in Queries :
                RectCells(q[1], q[2], q[3], q[4]) \cap Reserved(w) = {} =>
                    QueryOf(summed_area_table', q) = QueryOf(summed_area_table, q)
      ]_vars

\* C4: in mask mode no cell of a placed word's reserved rectangle is a pixel
\* that was unplaceable (non-zero) in the initial mask.
C4_MaskRespected ==
    size.kind = "mask" =>
        \A w \in Placed : \A c \in Reserved(w) : size.image[c[2] * Width + c[1]] = 0

\* C5: after initialisation and after every commit the table satisfies
\* table[y][x] = table[y-1][x] + table[y][x-1] - table[y-1][x-1] + grid[y][x],
\* out-of-range terms being 0.
TableAt(x, y) == IF x < 0 \/ y < 0 THEN 0 ELSE summed_area_table[y * Width + x]
C5_TableConsistent ==
    pc \in {"for", "place", "done", "panic"} =>
        \A x \in 0 .. Width - 1, y \in 0 .. Height - 1 :
            TableAt(x, y) = TableAt(x, y - 1) + TableAt(x - 1, y)
                            - TableAt(x - 1, y - 1) + gray_buffer[y * Width + x]
\* A word was committed on a mask that has an unplaceable pixel.
C5_Witness ==
    /\ pc = "for" /\ Len(final_words) >= 1
    /\ size.kind = "mask" /\ \E i \in DOMAIN size.image : size.image[i] # 0

\* C6: a cell that is occupied is occupied after every step of the run.
C6_Monotone ==
    [][\A i \in DOMAIN gray_buffer : gray_buffer[i] # 0 => gray_buffer'[i] # 0]_vars
\* A second word was committed onto a grid that held the first one's ink, and
\* a later word failed.
C6_Witness ==
    /\ Len(final_words) >= 2 /\ pc = "done"

\* C15: when place_word gives a word up (no size is left to try), the run
\* goes on with the next word: it does not panic, no placement of that word
\* is recorded, and the placements made so far are kept; no later step removes
\* or changes a placement.
GivesUp ==
    /\ pc = "place" /\ NextSize = 0
    /\ TooBig \/ (PlaceRes.point = NoPoint /\ pw.tried_rotate)
C15_DroppedWord ==
    [][/\ GivesUp =>
            /\ pc' = "for" /\ idx' = idx + 1
            /\ final_words' = final_words
            /\ \A i \in 1 .. Len(final_words') : final_words'[i].text # idx
       /\ Len(final_words) <= Len(final_words')
       /\ \A i \in 1 .. Len(final_words) : final_words'[i] = final_words[i]
      ]_vars
\* The first word was placed, the second was given up after both
\* orientations, and the run returned with the first word.
C15_Witness ==
    /\ pc = "done" /\ Len(words) = 2 /\ idx = 3
    /\ Len(final_words) = 1 /\ final_words[1].text = 1
    /\ pw.tried_rotate /\ pw.font_size = font_size

\* C20: with rotate chance 0.0 no word starts its search rotated, whatever
\* the generator draws, and with rotate chance 1.0 every word does.
C20_RotateChance ==
    pc = "place" /\ ~pw.tried_rotate =>
        /\ cfg.rotate_chance10 = 0 => ~pw.shold_rotate
        /\ cfg.rotate_chance10 = 10 => pw.shold_rotate

\* C21: the output is in placement order and is a subsequence of the ranked
\* list: the records' indices count up from 0, a word ranked before another
\* is placed before it, no ranked word is placed twice, and the recorded
\* frequencies are non-increasing along the output.
C21_RankOrder ==
    /\ \A i \in 1 .. Len(final_words) : final_words[i].index = i - 1
    /\ \A i, j \in 1 .. Len(final_words) :
        i < j => /\ final_words[i].text < final_words[j].text
                 /\ ~FracLess(final_words[i].frequency, final_words[j].frequency)
\* Two words of different weights were both placed.
C21_Witness ==
    /\ Len(final_words) = 2
    /\ FracLess(final_words[2].frequency, final_words[1].frequency)

\* C22: when at the start of a word the inherited font size, after the
\* relative scaling, is below min_font_size, the run ends there: the word and
\* all later ones are not attempted, the generator is not drawn from for an
\* orientation or a position, the grid is not touched and the words placed
\* so far are what the run returns; nothing happens after the run has ended.
C22_StateA ==
    /\ [][pc = "for" /\ idx <= Len(words)
            /\ FloatLess(ScaledSize, cfg.min_font_size) =>
                /\ pc' = "done" /\ idx' = idx
                /\ rng' = rng
                /\ final_words' = final_words
                /\ gray_buffer' = gray_buffer
                /\ summed_area_table' = summed_area_table]_vars
    /\ [][pc # "done"]_vars
\* The first word was placed and the run stopped at the second, whose scaled
\* size was below the minimum.
C22_Witness ==
    /\ pc = "done" /\ idx = 2 /\ Len(words) = 2 /\ Len(final_words) = 1
    /\ FloatLess(font_size, cfg.min_font_size)

\* C23: when a word's first orientation is exhausted down to min_font_size
\* with no free position, the search is retried exactly once from the word's
\* original font size in the other orientation (upright becomes rotated,
\* rotated becomes upright), and the word fails only after both orientations
\* have been exhausted.
C23_RotationFallback ==
    /\ [][pc = "place" /\ pc' = "place" /\ ~pw.tried_rotate /\ pw'.tried_rotate =>
            /\ pw'.shold_rotate = ~pw.shold_rotate
            /\ pw'.font_size = pw.initial_font_size]_vars
    /\ [][pc = "place" /\ pc' = "place" /\ pw.tried_rotate => pw'.tried_rotate
            /\ pw'.shold_rotate = pw.shold_rotate]_vars
    /\ [][pc = "place" /\ pc' = "for" /\ final_words' = final_words =>
            pw.tried_rotate]_vars

\* The size of the most recent commit, or the run's starting size.
LastCommitted ==
    IF final_words = <<>>
    THEN StartFontSize(size, words[1].len, cfg.word_margin)
    ELSE final_words[Len(final_words)].font_size

\* C24 as stated: after a word fails, the font size the next word inherits
\* is the size at which the most recent word was committed, or the run's
\* starting size if none was.
C24_CarryCommitted ==
    [][GivesUp /\ idx < Len(words) =>
        pc' = "for" /\ idx' = idx + 1 /\ font_size' = LastCommitted]_vars

\* C24, amended: after a word fails, the font size the next word inherits is
\* the size at which the failed word's search gave up, the last size
\* place_word tried and from which check_font_size allows no further step;
\* the next word's search starts from that size, relative scaling applied.
C24_CarryDecayed ==
    /\ [][GivesUp /\ idx < Len(words) =>
            /\ pc' = "for" /\ idx' = idx + 1
            /\ font_size' = pw.font_size
            /\ check_font_size(font_size', cfg.font_step, cfg.min_font_size) = 0
         ]_vars
    /\ [][pc = "for" /\ pc' = "place" =>
            pw'.initial_font_size = ScaledSize /\ pw'.font_size = ScaledSize]_vars
\* The first word failed after its size had decayed, no word is committed,
\* and the second word's search has started from the decayed size.
C24_Witness ==
    /\ pc = "place" /\ idx = 2 /\ final_words = <<>>
    /\ cfg.rfs2 = 0
    /\ pw.initial_font_size = font_size
    /\ font_size < StartFontSize(size, words[1].len, cfg.word_margin)

\* The cells of the canvas.
CanvasCells == (0 .. Width - 1) \X (0 .. Height - 1)

\* C27: every cell a commit paints into the occupancy grid lies inside the
\* canvas and inside the rectangle the search reserved for the word (its
\* anchor, reserved width and height), for upright and for rotated words
\* alike, and no commit paints outside the canvas.
C27_InkInReserved ==
    /\ [](\A w \in Placed :
            InkCells(w.position[1], w.position[2], w.glyphs)
                \subseteq (Reserved(w) \cap CanvasCells))
    /\ [][pc = "place" /\ PlaceRes.point # NoPoint =>
            /\ InkCells(PointX, PointY, Glyphs) \subseteq CanvasCells
            /\ pc' # "panic"]_vars

\* C28: along the output the font sizes do not increase: a word placed
\* earlier never has a smaller font size than one placed later (the ranked
\* list has non-increasing weights, relative scaling is within [0, 1]).
C28_SizesNonIncreasing ==
    \A i, j \in 1 .. Len(final_words) :
        i < j => ~FloatLess(final_words[i].font_size, final_words[j].font_size)
\* Two words are placed, the second at a smaller size than the first, after
\* the relative scaling and a decay in its search.
C28_Witness ==
    /\ Len(final_words) = 2 /\ cfg.rfs2 = 1
    /\ final_words[2].font_size < final_words[1].font_size
    /\ pw.font_size < pw.initial_font_size

\* C29: a failed word placement leaves the occupancy grid, the summed-area
\* table, the list of placed words and last_freq as they were, only the
\* carried font size and the generator's state may differ; and last_freq
\* changes only with a commit.
C29_FailureFrame ==
    /\ [][GivesUp =>
            /\ pc' = "for"
            /\ UNCHANGED <<gray_buffer, summed_area_table, final_words, last_freq>>
            /\ UNCHANGED <<cfg, size, words, skip_list>>]_vars
    /\ [][pc = "place" /\ Len(final_words') = Len(final_words) =>
            UNCHANGED <<gray_buffer, summed_area_table, final_words, last_freq>>]_vars
    /\ [][last_freq' # last_freq =>
            /\ Len(final_words') = Len(final_words) + 1
            /\ last_freq' = final_words'[Len(final_words')].frequency]_vars
\* The first word is committed, the second, of a smaller weight, has failed
\* after both passes of its search: last_freq is still the first word's.
C29_Witness ==
    /\ pc = "for" /\ idx = 3 /\ Len(final_words) = 1
    /\ FracLess(words[2].freq, words[1].freq)
    /\ last_freq = words[1].freq
    /\ pw.tried_rotate /\ font_size = pw.font_size

\* ------------------------------------------------------- SpecText
\* generate_from_text from the text on: the analyzer is run on the text
\* (lib.rs:125) and its output is what the layout loop iterates over.
GenTexts == UNION {[1 .. n -> Vocab] : n \in 0 .. GenTextLen}
GenTokConfigs ==
    [min_word_length : {0},
     exclude_numbers : {TRUE},
     filter : {with_filter({})},
     max_words : {0, 1},
     repeat : {FALSE}]
GenSizes ==
    {[kind |-> "dims", width |-> CanvasW, height |-> CanvasH, image |-> NoBuf]}

InitText ==
    /\ t_pc = "init"
    /\ t_cfg \in GenTokConfigs
    /\ t_text \in GenTexts
    /\ t_raw = <<>>
    /\ t_freq = <<>>
    /\ t_out = <<>>
    /\ pc = "idle"
    /\ cfg \in Configs
    /\ size \in GenSizes
    /\ words = <<>>
    /\ gray_buffer = NoBuf
    /\ summed_area_table = NoBuf
    /\ skip_list = <<>>
    /\ final_words = <<>>
    /\ last_freq = <<1, 1>>
    /\ font_size = 0
    /\ rng = 0
    /\ idx = 0
    /\ pw = <<>>
    /\ run = 1
    /\ prev_words = <<>>
    /\ SatIdle

\* lib.rs:125: words is what get_normalized_word_frequencies returned; of a
\* word the layout reads its characters (here their number) and its weight.
WordsOf(out) ==
    [i \in 1 .. Len(out) |-> [len |-> Len(out[i][1]), freq |-> out[i][2]]]
Analyzed ==
    /\ pc = "idle" /\ t_pc = "done"
    /\ words' = WordsOf(t_out)
    /\ pc' = "start"
    /\ UNCHANGED <<cfg, size, gray_buffer, summed_area_table, skip_list,
                   final_words, last_freq, font_size, rng, idx, pw>>
    /\ UNCHANGED <<sat_vars, tok_vars, run, prev_words>>

NextText == GetWordFrequencies \/ GetNormalized \/ Analyzed \/ Next

SpecText == InitText /\ [][NextText]_vars

\* ------------------------------------------------------- properties of SpecText
\* C12: with max_words > 0 the analyzer output has at most max_words entries
\* and no merged word left out ranks before one that is in it, and the layout
\* run emits at most max_words words; with max_words = 0 every merged word is
\* in the output.
OutForms == {t_out[i][1] : i \in 1 .. Len(t_out)}
C12_MaxWords ==
    /\ t_pc = "done" =>
          /\ OutForms \subseteq DOMAIN t_freq
          /\ Len(t_out) = Cardinality(OutForms)
          /\ IF t_cfg.max_words > 0
             THEN /\ Len(t_out) = Min(t_cfg.max_words, Cardinality(DOMAIN t_freq))
                  /\ \A k \in DOMAIN t_freq \ OutForms : \A e \in OutEntries :
                        NormBefore(e, <<k, Weight(t_freq[k], MaxFreq(t_freq))>>)
             ELSE OutForms = DOMAIN t_freq
    /\ Len(final_words) <= Len(words)
    /\ t_cfg.max_words > 0 => Len(final_words) <= t_cfg.max_words
\* A text of two merged words with max_words = 1: one word placed, the run
\* returned.
C12_Witness ==
    /\ pc = "done" /\ t_cfg.max_words = 1
    /\ Cardinality(DOMAIN t_freq) = 2
    /\ Len(t_out) = 1 /\ Len(final_words) = 1

\* C13: when the analyzer's list is empty after filtering, the run ends in the
\* panic of expect("There are no words!"): it never enters the loop, places
\* nothing and never returns.
C13_NoWordsPanics ==
    /\ [](t_pc = "done" /\ t_out = <<>> =>
            /\ pc \in {"idle", "start", "panic"}
            /\ final_words = <<>>
            /\ idx = 0)
    /\ [][t_pc = "done" /\ t_out = <<>> /\ pc = "start" => pc' = "panic"]_vars
\* The text "7" (numbers are excluded): nothing is left, the run panicked.
C13_Witness ==
    /\ pc = "panic" /\ t_text = <<(<<55>>)>> /\ t_out = <<>> /\ words = <<>>

\* ------------------------------------------------------- SpecSkip
\* create_mask_skip_list on the mask images of up to SkipMaxW by SkipMaxH
\* pixels, each pixel placeable (0) or not (255).
SkipImages(w, h) == [0 .. w * h - 1 -> {0, 255}]

SkipInit ==
    /\ k_pc = "init"
    /\ k_width \in 1 .. SkipMaxW
    /\ k_height \in 1 .. SkipMaxH
    /\ k_img \in SkipImages(k_width, k_height)
    /\ k_list = <<>>
    /\ s_pc = "idle" /\ s_width = 0 /\ s_height = 0 /\ s_grid = NoBuf
    /\ s_table = NoBuf /\ s_query = <<0, 0, 0, 0>> /\ s_result = FALSE
    /\ FindIdle /\ IncIdle /\ LayIdle /\ TokIdle

SkipBuild ==
    /\ k_pc = "init"
    /\ k_list' = create_mask_skip_list(k_img, k_width, k_height)
    /\ k_pc' = "built"
    /\ UNCHANGED <<k_width, k_height, k_img>>
    /\ UNCHANGED <<s_pc, s_width, s_height, s_grid, s_table, s_query, s_result>>
    /\ UNCHANGED <<find_vars, inc_vars, lay_vars, tok_vars>>

SkipNext == SkipBuild

SpecSkip == SkipInit /\ [][SkipNext]_vars

\* C17: for every row of the mask that has a placeable pixel, the row's entry
\* is (leftmost placeable column, rightmost placeable column) as a direct scan
\* of the row finds them.
RowZeros(y) == {c \in 0 .. k_width - 1 : k_img[y * k_width + c] = 0}
C17_SkipRowIsScan ==
    k_pc = "built" =>
        \A y \in 0 .. k_height - 1 :
            RowZeros(y) # {} =>
                /\ \A c \in RowZeros(y) : k_list[y][1] <= c /\ c <= k_list[y][2]
                /\ k_list[y][1] \in RowZeros(y)
                /\ k_list[y][2] \in RowZeros(y)

\* ------------------------------------------------------- SpecCanvas
\* Layout runs on the canvas sizes a caller can pass, the degenerate ones
\* included: FromDimensions takes any width and height.
DegenerateSizes ==
    {[kind |-> "dims", width |-> 0, height |-> CanvasH, image |-> NoBuf],
     [kind |-> "dims", width |-> CanvasW, height |-> 0, image |-> NoBuf],
     [kind |-> "dims", width |-> 0, height |-> 0, image |-> NoBuf]}

InitCanvas ==
    /\ pc = "start"
    /\ cfg \in Configs
    /\ size \in GenSizes \cup DegenerateSizes
    /\ words \in RankedLists
    /\ gray_buffer = NoBuf
    /\ summed_area_table = NoBuf
    /\ skip_list = <<>>
    /\ final_words = <<>>
    /\ last_freq = <<1, 1>>
    /\ font_size = 0
    /\ rng = 0
    /\ idx = 0
    /\ pw = <<>>
    /\ run = 1
    /\ prev_words = <<>>
    /\ SatIdle /\ TokIdle

SpecCanvas == InitCanvas /\ [][Next]_vars

\* C14: on a canvas of width 0 or height 0 the run aborts: it never
\* completes normally.
Degenerate == Width = 0 \/ Height = 0
C14_DegenerateAborts == Degenerate => pc # "done"

\* ------------------------------------------------------- SpecStep
\* Layout runs over the font steps a caller can set: font_step is an f32 that
\* nothing validates (main.rs:220-226 parses any number).
ConfigsStep ==
    [word_margin : {0, 2},
     rotate_chance10 : {0, 10},
     min_font_size : {1, 3},
     max_font_size : {NoMax, 2},
     font_step : {0, 1, 2},
     rfs2 : {0, 1},
     repeat : {FALSE},
     rng_seed : 0 .. MaxSeed]

InitStep ==
    /\ pc = "start"
    /\ cfg \in ConfigsStep
    /\ size \in GenSizes
    /\ words \in RankedLists
    /\ gray_buffer = NoBuf
    /\ summed_area_table = NoBuf
    /\ skip_list = <<>>
    /\ final_words = <<>>
    /\ last_freq = <<1, 1>>
    /\ font_size = 0
    /\ rng = 0
    /\ idx = 0
    /\ pw = <<>>
    /\ run = 1
    /\ prev_words = <<>>
    /\ SatIdle /\ TokIdle

SpecStep == InitStep /\ [][Next]_vars

\* C16: the search for one word ends after finitely many turns of its loop:
\* no more than one turn for each size from the initial one down, in each of
\* the two orientations; and the loop over the words does not go past the
\* list.
C16_SearchEnds ==
    /\ pc = "place" => pw.turns <= 2 * Max(pw.initial_font_size, 1)
    /\ idx <= Len(words) + 1

\* C18 as stated: from one attempt of a word's search to the next the size
\* goes down by exactly font_step, and no attempt uses a larger size than the
\* attempt before it.
NextAttempt == pc = "place" /\ pc' = "place"
C18_AlwaysDecreasing ==
    [][NextAttempt =>
        /\ pw'.font_size = pw.font_size - cfg.font_step
        /\ ~FloatLess(pw.font_size, pw'.font_size)
      ]_vars
\* C18 as amended: an attempt that follows another in the same orientation
\* pass uses the size before it minus font_step (strictly less for a positive
\* font_step) and not less than min_font_size; the size changes otherwise
\* only at the one rotate retry, which starts again from the word's initial
\* size.
C18_DecayByStep ==
    [][NextAttempt =>
        \/ /\ pw'.tried_rotate = pw.tried_rotate
           /\ pw'.shold_rotate = pw.shold_rotate
           /\ pw'.font_size = pw.font_size - cfg.font_step
           /\ cfg.font_step > 0 => FloatLess(pw'.font_size, pw.font_size)
           /\ pw'.font_size >= cfg.min_font_size
        \/ /\ ~pw.tried_rotate /\ pw'.tried_rotate
           /\ pw'.font_size = pw.initial_font_size
      ]_vars
\* A search with font_step 2 that went down one step, then retried rotated
\* from its initial size and went down again.
C18_Witness ==
    /\ pc = "place" /\ cfg.font_step = 2
    /\ pw.tried_rotate /\ pw.font_size = pw.initial_font_size - 2

\* C19: every font size the search attempts and every font size recorded for
\* a placed word is at least min_font_size and, when max_font_size is set, at
\* most max_font_size.
InBounds(fs) ==
    /\ fs >= cfg.min_font_size
    /\ cfg.max_font_size # NoMax => fs <= cfg.max_font_size
C19_SizeBounds ==
    /\ pc = "place" => InBounds(pw.font_size)
    /\ \A i \in 1 .. Len(final_words) : InBounds(final_words[i].font_size)

\* ------------------------------------------------------- SpecTwice
\* generate_from_text takes &self: the same WordCloud is asked for the same
\* text and size a second time.  Every local of the first call is gone; its
\* placements are kept in prev_words to compare.
ConfigsTwice ==
    [word_margin : {0, 2},
     rotate_chance10 : {0, 10},
     min_font_size : {1, 3},
     max_font_size : {NoMax},
     font_step : {1},
     rfs2 : {1},
     repeat : {FALSE},
     rng_seed : {NoSeed} \cup 0 .. MaxSeed]

InitTwice ==
    /\ pc = "start"
    /\ cfg \in ConfigsTwice
    /\ size \in Sizes
    /\ words \in RankedLists
    /\ gray_buffer = NoBuf
    /\ summed_area_table = NoBuf
    /\ skip_list = <<>>
    /\ final_words = <<>>
    /\ last_freq = <<1, 1>>
    /\ font_size = 0
    /\ rng = 0
    /\ idx = 0
    /\ pw = <<>>
    /\ run = 1
    /\ prev_words = <<>>
    /\ SatIdle /\ TokIdle

Again ==
    /\ pc = "done" /\ run = 1
    /\ run' = 2
    /\ prev_words' = final_words
    /\ pc' = "start"
    /\ gray_buffer' = NoBuf
    /\ summed_area_table' = NoBuf
    /\ skip_list' = <<>>
    /\ final_words' = <<>>
    /\ last_freq' = <<1, 1>>
    /\ font_size' = 0
    /\ rng' = 0
    /\ idx' = 0
    /\ pw' = <<>>
    /\ UNCHANGED <<cfg, size, words>>
    /\ UNCHANGED <<sat_vars, tok_vars>>

NextTwice == Next \/ Again

SpecTwice == InitTwice /\ [][NextTwice]_vars

\* C7: two runs on the same ranked words, configuration and seed return the
\* same placements: the same words in the same order, each with the same
\* position, font size and orientation.
C7_SameSeedSameLayout ==
    run = 2 /\ pc = "done" /\ cfg.rng_seed # NoSeed => final_words = prev_words
\* Both runs are over, a seed was given and two words were placed.
C7_Witness ==
    /\ run = 2 /\ pc = "done" /\ cfg.rng_seed # NoSeed
    /\ Len(final_words) = 2

\* ------------------------------------------------------- SpecFind
\* find_space_for_rect, one anchor per step; what rng.generate_range returns
\* is an input of the step.
FindInit ==
    /\ f_pc = "scan"
    /\ f_width \in 1 .. FindMaxW
    /\ f_height \in 1 .. FindMaxH
    /\ \E g \in SatGrids(f_width, f_height) :
            f_table = to_summed_area_table(g, f_width, 0)
    /\ f_rect \in [width : 1 .. f_width, height : 1 .. f_height]
    /\ f_k = 0
    /\ f_avail = 0
    /\ f_point = NoPoint
    /\ SatOnlyIdle /\ SkipIdle /\ IncIdle /\ LayIdle /\ TokIdle

\* sat.rs:40-41
FindMaxX == f_width - f_rect.width
FindMaxY == f_height - f_rect.height

\* A mutant of sat.rs:58-61: the first free anchor is kept.
FindPickFirst(point, avail, pick, random_num) ==
    IF avail = 0 THEN point ELSE pick

\* sat.rs:58-61: the anchor replaces the pick when the draw from
\* 0 ..= available_points is available_points.
FindPick(point, avail, pick, random_num) ==
    IF random_num = avail THEN point ELSE pick

\* One turn of the inner loop, sat.rs:48-64.
FindVisit ==
    /\ f_pc = "scan" /\ FindMaxX > 0 /\ f_k < FindMaxX * FindMaxY
    /\ LET x == f_k % FindMaxX
           y == f_k \div FindMaxX
       IN  IF region_is_empty(f_table, f_width, x, y, f_rect.width, f_rect.height)
           THEN /\ \E random_num \in 0 .. f_avail :
                    f_point' = FindPick(<<x, y>>, f_avail, f_point, random_num)
                /\ f_avail' = f_avail + 1
           ELSE UNCHANGED <<f_point, f_avail>>
    /\ f_k' = f_k + 1
    /\ UNCHANGED <<f_pc, f_width, f_height, f_table, f_rect>>
    /\ UNCHANGED <<s_pc, s_width, s_height, s_grid, s_table, s_query, s_result>>
    /\ UNCHANGED <<skip_vars, inc_vars, lay_vars, tok_vars>>

\* sat.rs:67: the loops are over.
FindReturn ==
    /\ f_pc = "scan" /\ (FindMaxX <= 0 \/ f_k >= FindMaxX * FindMaxY)
    /\ f_pc' = "returned"
    /\ UNCHANGED <<f_width, f_height, f_table, f_rect, f_k, f_avail, f_point>>
    /\ UNCHANGED <<s_pc, s_width, s_height, s_grid, s_table, s_query, s_result>>
    /\ UNCHANGED <<skip_vars, inc_vars, lay_vars, tok_vars>>

FindNext == FindVisit \/ FindReturn

SpecFind == FindInit /\ [][FindNext]_vars

RECURSIVE FindPicks(_, _, _, _, _, _, _, _)
\* The values random_pont can hold after the loops, from anchor number k on,
\* over all the values the draws can take.
FindPicks(tab, tw, rect, max_x, max_y, k, avail, picks) ==
    IF max_x <= 0 \/ k >= max_x * max_y THEN picks
    ELSE IF region_is_empty(tab, tw, k % max_x, k \div max_x, rect.width, rect.height)
         THEN FindPicks(tab, tw, rect, max_x, max_y, k + 1, avail + 1,
                        {FindPick(<<k % max_x, k \div max_x>>, avail, p, n) :
                            p \in picks, n \in 0 .. avail})
         ELSE FindPicks(tab, tw, rect, max_x, max_y, k + 1, avail, picks)

\* ------------------------------------------------------- properties of SpecFind
\* The anchors of the claim's range that pass the query.
FindPassing ==
    {a \in (0 .. f_width - f_rect.width - 1) \X (0 .. f_height - f_rect.height - 1) :
        region_is_empty(f_table, f_width, a[1], a[2], f_rect.width, f_rect.height)}

\* C25: for a rectangle no larger than the canvas find_space_for_rect returns
\* None exactly when no anchor (x, y), 0 <= x < width - rect.width and
\* 0 <= y < height - rect.height, passes the query; otherwise it returns one
\* of the passing anchors, and each passing anchor is returned for some
\* values of the draws.
C25_Search ==
    /\ f_pc = "returned" =>
            /\ f_point = NoPoint <=> FindPassing = {}
            /\ f_point # NoPoint => f_point \in FindPassing
    /\ f_pc = "scan" /\ f_k = 0 =>
            FindPassing \subseteq
                FindPicks(f_table, f_width, f_rect, FindMaxX, FindMaxY, 0, 0, {NoPoint})
\* The search returned a passing anchor that is not the first in the loops'
\* order, on a table where some anchor does not pass.
C25_Witness ==
    /\ f_pc = "returned" /\ f_point \in FindPassing
    /\ \E a \in FindPassing :
            a[2] * FindMaxX + a[1] < f_point[2] * FindMaxX + f_point[1]
    /\ Cardinality(FindPassing) < FindMaxX * FindMaxY

\* ------------------------------------------------------- SpecInc
\* to_summed_area_table called with a start_row on the table the commit
\* hands it (lib.rs:226-232): the rows above start_row hold the summed-area
\* values of the grid, the rows from start_row on hold the raw grid.
IncTable(grid, width, start_row) ==
    LET full == to_summed_area_table(grid, width, 0)
    IN  [i \in DOMAIN grid |-> IF i \div width < start_row THEN full[i] ELSE grid[i]]

IncInit ==
    /\ i_pc = "init"
    /\ i_width \in 1 .. SatMaxW
    /\ i_height \in 1 .. SatMaxH
    /\ i_grid \in SatGrids(i_width, i_height)
    /\ i_start \in 0 .. i_height
    /\ i_table = IncTable(i_grid, i_width, i_start)
    /\ SatOnlyIdle /\ SkipIdle /\ FindIdle /\ LayIdle /\ TokIdle

IncRebuild ==
    /\ i_pc = "init"
    /\ i_table' = to_summed_area_table(i_table, i_width, i_start)
    /\ i_pc' = "rebuilt"
    /\ UNCHANGED <<i_width, i_height, i_grid, i_start>>
    /\ UNCHANGED <<s_pc, s_width, s_height, s_grid, s_table, s_query, s_result>>
    /\ UNCHANGED <<skip_vars, find_vars, lay_vars, tok_vars>>

IncNext == IncRebuild

SpecInc == IncInit /\ [][IncNext]_vars

\* C26: when the rows above start_row hold the summed-area values and the
\* rows from start_row on hold the raw grid, to_summed_area_table(table,
\* width, start_row) gives the table a rebuild of the raw grid from row 0
\* gives, and the rows above start_row are as they were.
C26_IncrementalIsFull ==
    /\ [](i_pc = "rebuilt" => i_table = to_summed_area_table(i_grid, i_width, 0))
    /\ [][i_pc = "init" =>
            \A i \in DOMAIN i_table :
                i \div i_width < i_start => i_table'[i] = i_table[i]]_vars

====
